---- MODULE Spec2Model ----
(***************************************************************************)
(* Float8 delayed/dynamic scaling for a linear layer (float8_experimental).*)
(*                                                                         *)
(* float8_linear.py : Float8Linear, NoopFwToFloat8E5M2Bw and               *)
(*                    _maybe_initialize_amaxes_scales_for_float8_cast      *)
(* float8_tensor.py : Float8Tensor, choose_scaled_mm_config                *)
(*                                                                         *)
(* A tensor is abstracted to the two magnitudes the scaling logic reads:   *)
(* `local`, the max |x| of this worker's data, and `world`, the max over   *)
(* all workers (what an all-reduce MAX of `local` returns).  A scale is a  *)
(* rational num/den; den = 0 stands for an amax clamped up to EPS.         *)
(*                                                                         *)
(* float8_linear.py names the gemm roles X, W, DL_DY and the casts         *)
(* Float8Tensor.to_float8 / to_fp8_no_autograd; float8_tensor.py names the *)
(* roles INPUT, WEIGHT, GRAD_OUTPUT and the cast                           *)
(* hp_tensor_and_scale_to_float8.  The model reads them as the same roles  *)
(* and the same cast.                                                      *)
(***************************************************************************)
EXTENDS Integers, Sequences, FiniteSets, TLC

VARIABLES
    \* ---- Float8Linear (float8_linear.py) ----
    scaling_type,                \* role -> "dynamic" | "delayed"
    has_any_delayed_scaling,
    enable_amax_init,            \* config.enable_amax_init
    enable_pre_and_post_forward,
    weight_is_float8,            \* isinstance(self.weight, Float8Tensor): cast by FSDP
    buffers,                     \* registered buffers: name -> sequence of scalars
    is_amax_initialized,
    amax_and_scale_synced,
    last_seen_input_dtype,
    graph,                       \* autograd nodes recorded by forward, not yet freed
    nforward,                    \* number of forward calls that returned
    ncalls,                      \* number of operations applied to the layer so far
    casts,                       \* role -> number of delayed casts that used the role's state
    init_runs,                   \* role -> number of times the initialization body ran
    last,                        \* the last operation, its inputs and its outcome
    \* ---- _maybe_initialize_amaxes_scales_for_float8_cast called on its own ----
    st,                          \* [cur_amax, amax_history, scale]
    st_call,
    \* ---- choose_scaled_mm_config ----
    mm_call,
    \* ---- Float8Tensor construction ----
    tensors,                     \* the Float8Tensor values that exist
    tensor_call,
    \* ---- Float8Tensor.__torch_dispatch__ ----
    dispatch_call

layer_vars == <<scaling_type, has_any_delayed_scaling, enable_amax_init,
                enable_pre_and_post_forward, weight_is_float8, buffers,
                is_amax_initialized, amax_and_scale_synced, last_seen_input_dtype,
                graph, nforward, ncalls, casts, init_runs, last>>
fn_vars == <<st, st_call>>
mm_vars == <<mm_call>>
tensor_vars == <<tensors, tensor_call>>
dispatch_vars == <<dispatch_call>>
vars == <<layer_vars, fn_vars, mm_vars, tensor_vars, dispatch_vars>>

-----------------------------------------------------------------------------
(* Bounds *)

MaxAmax == 2          \* tensor magnitudes are 1..MaxAmax
HistoryLen == 2       \* config.delayed_scaling_config.history_len
MaxCalls == 3         \* operations applied to one layer
MaxNumel == 2         \* elements of a scale tensor handed to Float8Tensor
MaxTensors == 2       \* Float8Tensor values kept

-----------------------------------------------------------------------------
(* Values *)

None == "None"

INPUT == "input"
WEIGHT == "weight"
GRAD_OUTPUT == "grad_output"
GemmInputRole == {INPUT, WEIGHT, GRAD_OUTPUT}

DYNAMIC == "dynamic"
DELAYED == "delayed"
TensorScalingType == {DYNAMIC, DELAYED}

e4m3_dtype == "float8_e4m3fn"
e5m2_dtype == "float8_e5m2"
E4M3Max == 448        \* torch.finfo(torch.float8_e4m3fn).max
E5M2Max == 57344      \* torch.finfo(torch.float8_e5m2).max
FinfoMax(float8_dtype) == IF float8_dtype = e4m3_dtype THEN E4M3Max ELSE E5M2Max

Dtypes == {"float32", "bfloat16"}

Min(a, b) == IF a <= b THEN a ELSE b

\* A high precision tensor: its dtype and the magnitudes the scaling code reads.
HPTensors == {t \in [dtype : Dtypes, local : 1..MaxAmax, world : 1..MaxAmax] :
                 t.local <= t.world}
\* the float32 tensors: the layer's input, weight and output gradient
F32Tensors == {t \in HPTensors : t.dtype = "float32"}

ScaledMMConfig(emulate, use_fast_accum, fp8_output, pad_inner_dim) ==
    [emulate |-> emulate, use_fast_accum |-> use_fast_accum,
     fp8_output |-> fp8_output, pad_inner_dim |-> pad_inner_dim]

LinearMMConfig(output, grad_input, grad_weight) ==
    [output |-> output, grad_input |-> grad_input, grad_weight |-> grad_weight]

\* linear_mm_config=None
NoneConfig == [none |-> TRUE]

DefaultLinearMMConfig ==
    LinearMMConfig(ScaledMMConfig(FALSE, TRUE, FALSE, FALSE),
                   ScaledMMConfig(FALSE, FALSE, FALSE, FALSE),
                   ScaledMMConfig(FALSE, FALSE, FALSE, FALSE))

-----------------------------------------------------------------------------
(* float8_utils: tensor_to_amax, amax_history_to_scale, to_fp8_saturated *)

\* max |x|, all-reduced with MAX over the workers when reduce_amax is set
tensor_to_amax(x, reduce_amax) == IF reduce_amax THEN x.world ELSE x.local

SeqMax(s) == CHOOSE m \in {s[i] : i \in 1..Len(s)} : \A i \in 1..Len(s) : s[i] <= m

\* fp8_max / clamp(amax, min=EPS); den = 0 is the amax clamped to EPS
amax_to_scale(amax, float8_dtype) == [num |-> FinfoMax(float8_dtype), den |-> amax]

\* scale_fn_name "max": the scale of the largest amax in the history
amax_history_to_scale(amax_history, float8_dtype) ==
    amax_to_scale(SeqMax(amax_history), float8_dtype)

\* the magnitude of (tensor * scale) saturated to the float8 range
to_fp8_saturated(x, scale, float8_dtype) ==
    IF scale.den = 0 THEN FinfoMax(float8_dtype)
    ELSE Min((x.local * scale.num) \div scale.den, FinfoMax(float8_dtype))

-----------------------------------------------------------------------------
(* float8_tensor.py *)

Error(kind, what) == [error |-> kind, what |-> what]
IsError(v) == "error" \in DOMAIN v

\* choose_scaled_mm_config that also takes the operands in the other order
choose_scaled_mm_config_either_order(a_role, a_linear_mm_config, b_role, b_linear_mm_config) ==
    IF {a_role, b_role} = {INPUT, WEIGHT} THEN a_linear_mm_config.output
    ELSE IF {a_role, b_role} = {GRAD_OUTPUT, WEIGHT} THEN a_linear_mm_config.grad_input
    ELSE IF {a_role, b_role} = {GRAD_OUTPUT, INPUT} THEN a_linear_mm_config.grad_weight
    ELSE Error("AssertionError", "unexpected a_role and b_role")

\* choose_scaled_mm_config without the asserts: the first operand's config wins
choose_scaled_mm_config_unchecked(a_role, a_linear_mm_config, b_role, b_linear_mm_config) ==
    IF a_role = INPUT /\ b_role = WEIGHT THEN a_linear_mm_config.output
    ELSE IF a_role = GRAD_OUTPUT /\ b_role = WEIGHT THEN a_linear_mm_config.grad_input
    ELSE IF a_role = GRAD_OUTPUT /\ b_role = INPUT THEN a_linear_mm_config.grad_weight
    ELSE Error("AssertionError", "unexpected a_role and b_role")

\* choose which scaled_mm_config to use based on gemm inputs
choose_scaled_mm_config(a_role, a_linear_mm_config, b_role, b_linear_mm_config) ==
    IF a_role = INPUT /\ b_role = WEIGHT
    THEN IF a_linear_mm_config.output = b_linear_mm_config.output
         THEN a_linear_mm_config.output
         ELSE Error("AssertionError", "linear_mm_config.output mismatch")
    ELSE IF a_role = GRAD_OUTPUT /\ b_role = WEIGHT
    THEN IF a_linear_mm_config.grad_input = b_linear_mm_config.grad_input
         THEN a_linear_mm_config.grad_input
         ELSE Error("AssertionError", "linear_mm_config.grad_input mismatch")
    ELSE IF a_role = GRAD_OUTPUT /\ b_role = INPUT
    THEN IF a_linear_mm_config.grad_weight = b_linear_mm_config.grad_weight
         THEN a_linear_mm_config.grad_weight
         ELSE Error("AssertionError", "linear_mm_config.grad_weight mismatch")
    ELSE Error("AssertionError", "unexpected a_role and b_role")

\* Float8Tensor.__new__ without the assert on scale.numel()
Float8Tensor_unchecked(data, scale, orig_dtype, linear_mm_config, gemm_input_role) ==
    [_data |-> data,
     _scale |-> scale,
     _orig_dtype |-> orig_dtype,
     _linear_mm_config |-> IF linear_mm_config = NoneConfig
                           THEN DefaultLinearMMConfig ELSE linear_mm_config,
     _gemm_input_role |-> gemm_input_role]

\* Float8Tensor.__new__; scale is a tensor, modelled as the sequence of its elements
Float8Tensor(data, scale, orig_dtype, linear_mm_config, gemm_input_role) ==
    IF Len(scale) # 1
    THEN Error("AssertionError", "Scale should contain a single value")
    ELSE [_data |-> data,
          _scale |-> scale,
          _orig_dtype |-> orig_dtype,
          _linear_mm_config |-> IF linear_mm_config = NoneConfig
                                THEN DefaultLinearMMConfig ELSE linear_mm_config,
          _gemm_input_role |-> gemm_input_role]

\* Float8Tensor.__tensor_flatten__: the inner tensors and the metadata
tensor_flatten(t) ==
    [inner_tensors |-> [_data |-> t._data, _scale |-> t._scale],
     metadata |-> [_orig_dtype |-> t._orig_dtype,
                   _linear_mm_config |-> t._linear_mm_config,
                   _gemm_input_role |-> t._gemm_input_role]]

\* Float8Tensor.__tensor_unflatten__
tensor_unflatten(inner_tensors, metadata) ==
    IF Cardinality(DOMAIN inner_tensors) # 2
    THEN Error("AssertionError", "len(inner_tensors) == 2")
    ELSE Float8Tensor(inner_tensors._data, inner_tensors._scale,
                      metadata._orig_dtype, metadata._linear_mm_config,
                      metadata._gemm_input_role)

\* _ToFloat8ConstrFunc.forward (plain tensors): scale, saturate, wrap
ToFloat8ConstrFunc_forward(tensor, scale, float8_dtype, linear_mm_config, gemm_input_role) ==
    LET bits_fp8 == IF Len(scale) = 1
                    THEN <<float8_dtype, to_fp8_saturated(tensor, scale[1], float8_dtype)>>
                    ELSE <<float8_dtype, 0>>
    IN  Float8Tensor(bits_fp8, scale, tensor.dtype, linear_mm_config, gemm_input_role)

hp_tensor_and_scale_to_float8(hp_tensor, s, float8_dtype, linear_mm_config, gemm_input_role) ==
    ToFloat8ConstrFunc_forward(hp_tensor, s, float8_dtype, linear_mm_config, gemm_input_role)

\* the same cast outside autograd, as NoopFwToFloat8E5M2Bw.backward calls it
to_fp8_no_autograd(x, scale, float8_dtype, linear_mm_config, gemm_input_role) ==
    ToFloat8ConstrFunc_forward(x, scale, float8_dtype, linear_mm_config, gemm_input_role)

\* float8_ops.FLOAT8_OPS_TABLE: the operators with a float8 handler
FLOAT8_OPS_TABLE == {"aten.view.default", "aten.t.default", "aten.mm.default"}

AtenOps == FLOAT8_OPS_TABLE \cup {"aten.sin.default", "aten.mul.Tensor", "aten.add.Tensor"}

TensorTypes == {"Tensor", "Float8Tensor", "FakeTensor", "FunctionalTensor",
                "DTensor", "AsyncCollectiveTensor"}

\* every tensor class derives from torch.Tensor, and from no other class of TensorTypes
issubclass(c, type) == c = type \/ type = "Tensor"

allowed_subclasses(type) ==
    \/ issubclass("Float8Tensor", type)
    \/ issubclass("FakeTensor", type)
    \/ issubclass("FunctionalTensor", type)

Returned(kind, func) == [returned |-> kind, func |-> func]

\* __torch_dispatch__ that runs an operator without a handler in original precision
torch_dispatch_fallback(func, types) ==
    IF ~ \A t \in types : allowed_subclasses(t)
    THEN Returned("NotImplemented", func)
    ELSE IF func \in FLOAT8_OPS_TABLE
    THEN Returned("FLOAT8_OPS_TABLE", func)
    ELSE Returned("to_original_precision", func)

\* Float8Tensor.__torch_dispatch__
torch_dispatch(func, types) ==
    IF ~ \A t \in types : allowed_subclasses(t)
    THEN Returned("NotImplemented", func)
    ELSE IF func \in FLOAT8_OPS_TABLE
    THEN Returned("FLOAT8_OPS_TABLE", func)
    ELSE Error("NotImplementedError", func)

-----------------------------------------------------------------------------
(* float8_linear.py *)

\* torch.tensor([1.0])
One == [num |-> 1, den |-> 1]

\* t.fill_(v): every element of t becomes v
fill_(t, v) == [i \in 1..Len(t) |-> v]

\* the initialization without its early return
maybe_initialize_always(x, cur_amax, amax_history, scale, float8_dtype, is_initialized, reduce_amax) ==
    LET new_amax == tensor_to_amax(x, reduce_amax)
        history == [amax_history EXCEPT ![1] = new_amax]
        new_scale == amax_history_to_scale(history, float8_dtype)
    IN  [fp8_amax |-> fill_(cur_amax, new_amax),
         fp8_amax_history |-> history,
         fp8_scale |-> fill_(scale, new_scale),
         ran |-> TRUE]

\* the initialization that forgets to write amax_history[0]
maybe_initialize_without_history(x, cur_amax, amax_history, scale, float8_dtype, is_initialized, reduce_amax) ==
    IF is_initialized
    THEN [fp8_amax |-> cur_amax, fp8_amax_history |-> amax_history,
          fp8_scale |-> scale, ran |-> FALSE]
    ELSE LET new_amax == tensor_to_amax(x, reduce_amax)
             new_scale == amax_history_to_scale(amax_history, float8_dtype)
         IN  [fp8_amax |-> fill_(cur_amax, new_amax),
              fp8_amax_history |-> amax_history,
              fp8_scale |-> fill_(scale, new_scale),
              ran |-> TRUE]

\* If x is about to be cast to float8 and the amax buffers are not initialized,
\* initializes them in place.  The result is the three buffers after the call,
\* and whether the initialization ran.
maybe_initialize_amaxes_scales_for_float8_cast(x, cur_amax, amax_history, scale, float8_dtype, is_initialized, reduce_amax) ==
    IF is_initialized
    THEN [fp8_amax |-> cur_amax, fp8_amax_history |-> amax_history,
          fp8_scale |-> scale, ran |-> FALSE]
    ELSE LET new_amax == tensor_to_amax(x, reduce_amax)
             history == [amax_history EXCEPT ![1] = new_amax]
             new_scale == amax_history_to_scale(history, float8_dtype)
         IN  [fp8_amax |-> fill_(cur_amax, new_amax),
              fp8_amax_history |-> history,
              fp8_scale |-> fill_(scale, new_scale),
              ran |-> TRUE]

\* default amax of a role's buffer: the largest magnitude of its float8 format
default_amax(role) == IF role = GRAD_OUTPUT THEN E5M2Max ELSE E4M3Max

role_dtype(role) == IF role = GRAD_OUTPUT THEN e5m2_dtype ELSE e4m3_dtype

\* create_buffers that allocates whatever the scaling types are
create_buffers_always(any_delayed, history_len) ==
    [r \in GemmInputRole |->
        [fp8_amax |-> <<default_amax(r)>>,
         fp8_amax_history |-> [i \in 1..history_len |-> 0],
         fp8_scale |-> <<One>>]]

\* Float8Linear.create_buffers: the registered buffers, by role
create_buffers(any_delayed, history_len) ==
    IF any_delayed
    THEN [r \in GemmInputRole |->
             [fp8_amax |-> <<default_amax(r)>>,
              fp8_amax_history |-> [i \in 1..history_len |-> 0],
              fp8_scale |-> <<One>>]]
    ELSE [r \in {} |-> 0]

\* has_any_delayed_scaling with the test inverted
any_delayed_scaling_inverted(st_input, st_weight, st_grad_output) ==
    st_input = DYNAMIC \/ st_weight = DYNAMIC \/ st_grad_output = DYNAMIC

\* Float8Linear.__init__: has_any_delayed_scaling
any_delayed_scaling(st_input, st_weight, st_grad_output) ==
    st_input = DELAYED \/ st_weight = DELAYED \/ st_grad_output = DELAYED

\* Float8Tensor.to_float8: records the amax of the tensor in amax_buffer, then casts
Float8Tensor_to_float8(tensor, scale, float8_dtype, amax_buffer, linear_mm_config, gemm_input_role) ==
    [amax_buffer |-> fill_(amax_buffer, tensor_to_amax(tensor, FALSE)),
     tensor |-> hp_tensor_and_scale_to_float8(tensor, scale, float8_dtype,
                                              linear_mm_config, gemm_input_role)]

\* float8_dynamic_utils.cast_to_float8_e4m3_dynamic / cast_to_float8_e5m2_dynamic_bw:
\* the scale comes from the tensor's own amax
cast_to_float8_dynamic(tensor, float8_dtype, linear_mm_config, reduce_amax, gemm_input_role) ==
    hp_tensor_and_scale_to_float8(
        tensor, <<amax_to_scale(tensor_to_amax(tensor, reduce_amax), float8_dtype)>>,
        float8_dtype, linear_mm_config, gemm_input_role)

\* cast_x_to_float8 that runs the initialization whatever is_amax_initialized is
cast_x_to_float8_reinitializing(x, amax_initialized, bufs) ==
    IF scaling_type[INPUT] = DELAYED
    THEN LET b == bufs[INPUT]
             i == maybe_initialize_amaxes_scales_for_float8_cast(
                      x, b.fp8_amax, b.fp8_amax_history, b.fp8_scale,
                      e4m3_dtype, FALSE, TRUE)
             c == Float8Tensor_to_float8(x, i.fp8_scale, e4m3_dtype, i.fp8_amax,
                                         DefaultLinearMMConfig, INPUT)
         IN  [bufs |-> [bufs EXCEPT ![INPUT] =
                           [fp8_amax |-> c.amax_buffer,
                            fp8_amax_history |-> i.fp8_amax_history,
                            fp8_scale |-> i.fp8_scale]],
              fp8 |-> c.tensor, cast |-> {INPUT},
              ran |-> IF i.ran THEN {INPUT} ELSE {}]
    ELSE [bufs |-> bufs,
          fp8 |-> cast_to_float8_dynamic(x, e4m3_dtype, DefaultLinearMMConfig, FALSE, INPUT),
          cast |-> {}, ran |-> {}]

\* Float8Linear.cast_x_to_float8
cast_x_to_float8(x, amax_initialized, bufs) ==
    IF scaling_type[INPUT] = DELAYED
    THEN LET b == bufs[INPUT]
             i == maybe_initialize_amaxes_scales_for_float8_cast(
                      x, b.fp8_amax, b.fp8_amax_history, b.fp8_scale,
                      e4m3_dtype, amax_initialized, TRUE)
             c == Float8Tensor_to_float8(x, i.fp8_scale, e4m3_dtype, i.fp8_amax,
                                         DefaultLinearMMConfig, INPUT)
         IN  [bufs |-> [bufs EXCEPT ![INPUT] =
                           [fp8_amax |-> c.amax_buffer,
                            fp8_amax_history |-> i.fp8_amax_history,
                            fp8_scale |-> i.fp8_scale]],
              fp8 |-> c.tensor, cast |-> {INPUT},
              ran |-> IF i.ran THEN {INPUT} ELSE {}]
    ELSE [bufs |-> bufs,
          fp8 |-> cast_to_float8_dynamic(x, e4m3_dtype, DefaultLinearMMConfig, FALSE, INPUT),
          cast |-> {}, ran |-> {}]

\* Float8Linear.cast_w_to_float8; a weight already cast by FSDP is used as it is
cast_w_to_float8(w, amax_initialized, bufs) ==
    IF scaling_type[WEIGHT] = DELAYED /\ ~weight_is_float8
    THEN LET b == bufs[WEIGHT]
             i == maybe_initialize_amaxes_scales_for_float8_cast(
                      w, b.fp8_amax, b.fp8_amax_history, b.fp8_scale,
                      e4m3_dtype, amax_initialized, FALSE)
             c == Float8Tensor_to_float8(w, i.fp8_scale, e4m3_dtype, i.fp8_amax,
                                         DefaultLinearMMConfig, WEIGHT)
         IN  [bufs |-> [bufs EXCEPT ![WEIGHT] =
                           [fp8_amax |-> c.amax_buffer,
                            fp8_amax_history |-> i.fp8_amax_history,
                            fp8_scale |-> i.fp8_scale]],
              fp8 |-> c.tensor, cast |-> {WEIGHT},
              ran |-> IF i.ran THEN {WEIGHT} ELSE {}]
    ELSE [bufs |-> bufs,
          fp8 |-> cast_to_float8_dynamic(w, e4m3_dtype, DefaultLinearMMConfig, FALSE, WEIGHT),
          cast |-> {}, ran |-> {}]

\* float8_pre_forward that does not look at torch.is_grad_enabled()
float8_pre_forward_raises_without_grad(grad_enabled) ==
    /\ enable_pre_and_post_forward
    /\ is_amax_initialized
    /\ ~amax_and_scale_synced

\* Float8Linear.float8_pre_forward: TRUE when it raises
\* "amaxes and scales not synced, please call sync_float8_amax_and_scale_history"
float8_pre_forward_raises(grad_enabled) ==
    /\ enable_pre_and_post_forward
    /\ is_amax_initialized
    /\ ~amax_and_scale_synced
    /\ grad_enabled

\* float8_post_forward that leaves amax_and_scale_synced as it is
float8_post_forward_keeps_synced ==
    IF ~enable_pre_and_post_forward
    THEN [is_amax_initialized |-> is_amax_initialized,
          amax_and_scale_synced |-> amax_and_scale_synced]
    ELSE [is_amax_initialized |-> TRUE, amax_and_scale_synced |-> amax_and_scale_synced]

\* float8_post_forward that leaves is_amax_initialized as it is
float8_post_forward_keeps_uninitialized ==
    IF ~enable_pre_and_post_forward
    THEN [is_amax_initialized |-> is_amax_initialized,
          amax_and_scale_synced |-> amax_and_scale_synced]
    ELSE [is_amax_initialized |-> is_amax_initialized, amax_and_scale_synced |-> FALSE]

\* float8_post_forward that marks the layer synced
float8_post_forward_marks_synced ==
    IF ~enable_pre_and_post_forward
    THEN [is_amax_initialized |-> is_amax_initialized,
          amax_and_scale_synced |-> amax_and_scale_synced]
    ELSE [is_amax_initialized |-> TRUE, amax_and_scale_synced |-> TRUE]

\* float8_post_forward that does not look at enable_pre_and_post_forward
float8_post_forward_ignoring_option ==
    [is_amax_initialized |-> TRUE, amax_and_scale_synced |-> FALSE]

\* Float8Linear.float8_post_forward: the two flags after it
float8_post_forward ==
    IF ~enable_pre_and_post_forward
    THEN [is_amax_initialized |-> is_amax_initialized,
          amax_and_scale_synced |-> amax_and_scale_synced]
    ELSE [is_amax_initialized |-> TRUE, amax_and_scale_synced |-> FALSE]

\* the backward with the lag removed: the scale is derived from this gradient's amax
\* before the cast
NoopFwToFloat8E5M2Bw_backward_rescaling(ctx, go, b) ==
    LET amax == fill_(b.fp8_amax, tensor_to_amax(go, FALSE))
        scale == fill_(b.fp8_scale, amax_to_scale(amax[1], e5m2_dtype))
        res == to_fp8_no_autograd(go, scale, e5m2_dtype, DefaultLinearMMConfig, GRAD_OUTPUT)
    IN  [buf |-> [fp8_amax |-> amax,
                  fp8_amax_history |-> b.fp8_amax_history,
                  fp8_scale |-> scale],
         res |-> res, ran |-> FALSE]

\* NoopFwToFloat8E5M2Bw.backward: the grad_output buffers after it and the cast gradient
NoopFwToFloat8E5M2Bw_backward(ctx, go, b) ==
    LET i == maybe_initialize_amaxes_scales_for_float8_cast(
                 go, b.fp8_amax, b.fp8_amax_history, b.fp8_scale,
                 e5m2_dtype, ctx.is_amax_initialized, TRUE)
        amax == fill_(i.fp8_amax, tensor_to_amax(go, FALSE))
        res == to_fp8_no_autograd(go, i.fp8_scale, e5m2_dtype,
                                  DefaultLinearMMConfig, GRAD_OUTPUT)
    IN  [buf |-> [fp8_amax |-> amax,
                  fp8_amax_history |-> i.fp8_amax_history,
                  fp8_scale |-> i.fp8_scale],
         res |-> res, ran |-> i.ran]

Bump(f, S) == [r \in DOMAIN f |-> IF r \in S THEN f[r] + 1 ELSE f[r]]

\* no call yet.  In `last`, fs is the latest of the forward and sync calls made so
\* far ("forward", "sync" or None) and prev is what fs was before the last call.
NoCall == [op |-> None, fs |-> None, prev |-> None]

\* Float8Linear.__init__, for every configuration of the layer
InitLayer ==
    /\ scaling_type \in [GemmInputRole -> TensorScalingType]
    /\ has_any_delayed_scaling =
           any_delayed_scaling(scaling_type[INPUT], scaling_type[WEIGHT],
                               scaling_type[GRAD_OUTPUT])
    /\ enable_amax_init \in BOOLEAN
    /\ enable_pre_and_post_forward \in BOOLEAN
    /\ weight_is_float8 \in BOOLEAN
    /\ buffers = create_buffers(has_any_delayed_scaling, HistoryLen)
    /\ is_amax_initialized = ~enable_amax_init
    /\ amax_and_scale_synced = ~enable_amax_init
    /\ last_seen_input_dtype = None
    /\ graph = {}
    /\ nforward = 0
    /\ ncalls = 0
    /\ casts = [r \in GemmInputRole |-> 0]
    /\ init_runs = [r \in GemmInputRole |-> 0]
    /\ last = NoCall

config_vars == <<scaling_type, has_any_delayed_scaling, enable_amax_init,
                 enable_pre_and_post_forward, weight_is_float8>>

\* Float8Linear.forward that raises in float8_pre_forward
ForwardRaises(grad_enabled) ==
    /\ ncalls < MaxCalls
    /\ has_any_delayed_scaling
    /\ float8_pre_forward_raises(grad_enabled)
    /\ ncalls' = ncalls + 1
    /\ last' = [op |-> "forward", n |-> ncalls + 1, raised |-> TRUE,
                grad_enabled |-> grad_enabled, ran |-> {},
                fs |-> "forward", prev |-> last.fs]
    /\ UNCHANGED <<config_vars, buffers, is_amax_initialized, amax_and_scale_synced,
                   last_seen_input_dtype, graph, nforward, casts, init_runs>>

\* Float8Linear.forward that returns
Forward(x, w, grad_enabled) ==
    /\ ncalls < MaxCalls
    /\ ~(has_any_delayed_scaling /\ float8_pre_forward_raises(grad_enabled))
    \* each intermediate result is bound once
    /\ \E cx \in {cast_x_to_float8(x, is_amax_initialized, buffers)} :
       \E cw \in {cast_w_to_float8(w, is_amax_initialized, cx.bufs)} :
       \E mm \in {choose_scaled_mm_config(cx.fp8._gemm_input_role, cx.fp8._linear_mm_config,
                                         cw.fp8._gemm_input_role, cw.fp8._linear_mm_config)} :
       \E post \in {float8_post_forward} :
           /\ buffers' = cw.bufs
           /\ last_seen_input_dtype' =
                  IF has_any_delayed_scaling /\ enable_pre_and_post_forward
                  THEN x.dtype ELSE last_seen_input_dtype
           \* cast_y_to_float8_in_bw: the backward node keeps self.is_amax_initialized
           /\ graph' = IF grad_enabled
                       THEN graph \cup {[nth |-> nforward + 1,
                                         is_amax_initialized |-> is_amax_initialized]}
                       ELSE graph
           /\ is_amax_initialized' =
                  IF has_any_delayed_scaling THEN post.is_amax_initialized
                  ELSE is_amax_initialized
           /\ amax_and_scale_synced' =
                  IF has_any_delayed_scaling THEN post.amax_and_scale_synced
                  ELSE amax_and_scale_synced
           /\ casts' = Bump(casts, cx.cast \cup cw.cast)
           /\ init_runs' = Bump(init_runs, cx.ran \cup cw.ran)
           /\ last' = [op |-> "forward", n |-> ncalls + 1, raised |-> FALSE,
                       grad_enabled |-> grad_enabled, x |-> x, w |-> w,
                       x_fp8 |-> cx.fp8, w_fp8 |-> cw.fp8,
                       ran |-> cx.ran \cup cw.ran, mm |-> mm,
                       fs |-> "forward", prev |-> last.fs]
    /\ nforward' = nforward + 1
    /\ ncalls' = ncalls + 1
    /\ UNCHANGED config_vars

\* loss.backward() through the node a forward recorded
Backward(ctx, go, retain_graph) ==
    /\ ncalls < MaxCalls
    /\ ctx \in graph
    /\ IF scaling_type[GRAD_OUTPUT] = DELAYED
       THEN \E bw \in {NoopFwToFloat8E5M2Bw_backward(ctx, go, buffers[GRAD_OUTPUT])} :
                /\ buffers' = [buffers EXCEPT ![GRAD_OUTPUT] = bw.buf]
                /\ casts' = Bump(casts, {GRAD_OUTPUT})
                /\ init_runs' = Bump(init_runs, IF bw.ran THEN {GRAD_OUTPUT} ELSE {})
                /\ last' = [op |-> "backward", n |-> ncalls + 1, raised |-> FALSE,
                            arg |-> go, ctx |-> ctx,
                            ran |-> IF bw.ran THEN {GRAD_OUTPUT} ELSE {},
                            res |-> bw.res, fs |-> last.fs, prev |-> last.fs]
       ELSE /\ UNCHANGED <<buffers, casts, init_runs>>
            /\ last' = [op |-> "backward", n |-> ncalls + 1, raised |-> FALSE,
                        arg |-> go, ctx |-> ctx, ran |-> {},
                        res |-> cast_to_float8_dynamic(go, e5m2_dtype,
                                    DefaultLinearMMConfig, FALSE, GRAD_OUTPUT),
                        fs |-> last.fs, prev |-> last.fs]
    /\ graph' = IF retain_graph THEN graph ELSE graph \ {ctx}
    /\ ncalls' = ncalls + 1
    /\ UNCHANGED <<config_vars, is_amax_initialized, amax_and_scale_synced,
                   last_seen_input_dtype, nforward>>

\* float8_linear_utils.sync_float8_amax_and_scale_history on this layer: each
\* history is rolled by one, the current amax goes to its front, the scale is
\* derived from the new history, and the layer is marked synced
sync_buffer(b, float8_dtype) ==
    LET history == <<b.fp8_amax[1]>> \o SubSeq(b.fp8_amax_history, 1,
                                               Len(b.fp8_amax_history) - 1)
    IN  [fp8_amax |-> b.fp8_amax,
         fp8_amax_history |-> history,
         fp8_scale |-> fill_(b.fp8_scale, amax_history_to_scale(history, float8_dtype))]

Sync ==
    /\ ncalls < MaxCalls
    /\ has_any_delayed_scaling
    /\ buffers' = [r \in DOMAIN buffers |-> sync_buffer(buffers[r], role_dtype(r))]
    /\ amax_and_scale_synced' = TRUE
    /\ ncalls' = ncalls + 1
    /\ last' = [op |-> "sync", n |-> ncalls + 1, raised |-> FALSE, ran |-> {},
                fs |-> "sync", prev |-> last.fs]
    /\ UNCHANGED <<config_vars, is_amax_initialized, last_seen_input_dtype, graph,
                   nforward, casts, init_runs>>

-----------------------------------------------------------------------------
(* The functions of the two files called on their own *)

ScaleValues == {One, amax_to_scale(MaxAmax, e4m3_dtype)}

\* a tensor of 0..MaxNumel scale values
ScaleTensors == UNION {[1..n -> ScaleValues] : n \in 0..MaxNumel}

\* the buffers of one role, in any state a layer can leave them in
AmaxStates ==
    [fp8_amax : {<<a>> : a \in (1..MaxAmax) \cup {E4M3Max}},
     fp8_amax_history : [1..HistoryLen -> 0..MaxAmax],
     fp8_scale : {<<v>> : v \in {One} \cup {amax_to_scale(a, e4m3_dtype) : a \in 0..MaxAmax}}]

InitFn ==
    /\ st \in AmaxStates
    /\ st_call = [n |-> 0, streak |-> 0, before |-> st]

\* one call of _maybe_initialize_amaxes_scales_for_float8_cast on the buffers st;
\* streak counts the calls in a row made with is_initialized set, before is the
\* state when that run of calls began
CallMaybeInitialize(x, is_initialized, reduce_amax) ==
    /\ st_call.n < MaxCalls
    /\ LET i == maybe_initialize_amaxes_scales_for_float8_cast(
                    x, st.fp8_amax, st.fp8_amax_history, st.fp8_scale,
                    e4m3_dtype, is_initialized, reduce_amax)
       IN  /\ st' = [fp8_amax |-> i.fp8_amax, fp8_amax_history |-> i.fp8_amax_history,
                     fp8_scale |-> i.fp8_scale]
           /\ st_call' = [n |-> st_call.n + 1,
                          streak |-> IF is_initialized THEN st_call.streak + 1 ELSE 0,
                          before |-> IF is_initialized /\ st_call.streak > 0
                                     THEN st_call.before ELSE st,
                          x |-> x, is_initialized |-> is_initialized,
                          reduce_amax |-> reduce_amax, ran |-> i.ran]
    /\ UNCHANGED <<layer_vars, mm_vars, tensor_vars, dispatch_vars>>

ScaledMMConfigs == {ScaledMMConfig(FALSE, f, FALSE, FALSE) : f \in BOOLEAN}

LinearMMConfigs == {LinearMMConfig(o, gi, gw) :
                       o \in ScaledMMConfigs, gi \in ScaledMMConfigs, gw \in ScaledMMConfigs}

InitMM == mm_call = NoCall

\* one call of choose_scaled_mm_config
CallChooseScaledMMConfig(a_role, a_linear_mm_config, b_role, b_linear_mm_config) ==
    /\ mm_call' = [op |-> "choose_scaled_mm_config",
                   a_role |-> a_role, a |-> a_linear_mm_config,
                   b_role |-> b_role, b |-> b_linear_mm_config,
                   result |-> choose_scaled_mm_config(a_role, a_linear_mm_config,
                                                      b_role, b_linear_mm_config)]
    /\ UNCHANGED <<layer_vars, fn_vars, tensor_vars, dispatch_vars>>

InitTensor ==
    /\ tensors = {}
    /\ tensor_call = NoCall

\* a Float8Tensor that was built joins the tensors that exist
Keep(result) == IF IsError(result) THEN tensors ELSE tensors \cup {result}

\* Float8Tensor(data, scale, orig_dtype, linear_mm_config, gemm_input_role)
NewFloat8Tensor(data, scale, orig_dtype, linear_mm_config, gemm_input_role) ==
    LET result == Float8Tensor(data, scale, orig_dtype, linear_mm_config, gemm_input_role)
    IN  /\ Cardinality(Keep(result)) <= MaxTensors
        /\ tensors' = Keep(result)
        /\ tensor_call' = [op |-> "new", numel |-> Len(scale), result |-> result]
        /\ UNCHANGED <<layer_vars, fn_vars, mm_vars, dispatch_vars>>

\* hp_tensor_and_scale_to_float8: the forward cast
CastToFloat8(hp_tensor, s, float8_dtype, gemm_input_role) ==
    LET result == hp_tensor_and_scale_to_float8(hp_tensor, s, float8_dtype,
                                                NoneConfig, gemm_input_role)
    IN  /\ Cardinality(Keep(result)) <= MaxTensors
        /\ tensors' = Keep(result)
        /\ tensor_call' = [op |-> "cast", numel |-> Len(s), result |-> result]
        /\ UNCHANGED <<layer_vars, fn_vars, mm_vars, dispatch_vars>>

\* __tensor_unflatten__ of what __tensor_flatten__ gave for t, with the inner
\* scale tensor replaced by any tensor the caller holds
Unflatten(t, scale) ==
    LET flat == tensor_flatten(t)
        result == tensor_unflatten([flat.inner_tensors EXCEPT !._scale = scale],
                                   flat.metadata)
    IN  /\ t \in tensors
        /\ Cardinality(Keep(result)) <= MaxTensors
        /\ tensors' = Keep(result)
        /\ tensor_call' = [op |-> "unflatten", numel |-> Len(scale), result |-> result]
        /\ UNCHANGED <<layer_vars, fn_vars, mm_vars, dispatch_vars>>

\* a Float8Tensor is dropped
Drop(t) ==
    /\ t \in tensors
    /\ tensors' = tensors \ {t}
    /\ tensor_call' = [op |-> "drop"]
    /\ UNCHANGED <<layer_vars, fn_vars, mm_vars, dispatch_vars>>

InitDispatch == dispatch_call = NoCall

\* an operator dispatched on operands of the given types, a Float8Tensor among them
Dispatch(func, types) ==
    /\ "Float8Tensor" \in types
    /\ dispatch_call' = [op |-> "dispatch", func |-> func, types |-> types,
                         result |-> torch_dispatch(func, types)]
    /\ UNCHANGED <<layer_vars, fn_vars, mm_vars, tensor_vars>>

-----------------------------------------------------------------------------
(* Specifications *)

\* a layer operation leaves the variables of the stand-alone calls alone
Others == UNCHANGED <<fn_vars, mm_vars, tensor_vars, dispatch_vars>>

\* the layer left as constructed, for the specifications of the stand-alone calls
IdleLayer ==
    /\ InitLayer
    /\ scaling_type = [r \in GemmInputRole |-> DELAYED]
    /\ enable_amax_init /\ enable_pre_and_post_forward /\ ~weight_is_float8

IdleFn ==
    /\ st = create_buffers(TRUE, HistoryLen)[INPUT]
    /\ st_call = [n |-> 0, streak |-> 0, before |-> st]

Init == InitLayer /\ IdleFn /\ InitMM /\ InitTensor /\ InitDispatch

Next ==
    \/ \E g \in BOOLEAN : ForwardRaises(g) /\ Others
    \/ \E x \in F32Tensors, w \in F32Tensors, g \in BOOLEAN : Forward(x, w, g) /\ Others
    \/ \E c \in graph, go \in F32Tensors, r \in BOOLEAN : Backward(c, go, r) /\ Others
    \/ Sync /\ Others

\* a Float8Linear under forward, backward and sync calls
Spec == Init /\ [][Next]_vars

InitFnSpec == IdleLayer /\ InitFn /\ InitMM /\ InitTensor /\ InitDispatch

NextFn == \E x \in HPTensors, i \in BOOLEAN, r \in BOOLEAN : CallMaybeInitialize(x, i, r)

\* _maybe_initialize_amaxes_scales_for_float8_cast called on the buffers of one role
SpecFn == InitFnSpec /\ [][NextFn]_vars

InitIdle == IdleLayer /\ IdleFn /\ InitMM /\ InitTensor /\ InitDispatch

NextMM == \E a_role \in GemmInputRole, b_role \in GemmInputRole,
             a \in LinearMMConfigs, b \in LinearMMConfigs :
                 CallChooseScaledMMConfig(a_role, a, b_role, b)

\* choose_scaled_mm_config on every pair of roles and configs
SpecMM == InitIdle /\ [][NextMM]_vars

NextTensor ==
    \/ \E s \in ScaleTensors, c \in {NoneConfig, DefaultLinearMMConfig},
          r \in GemmInputRole : NewFloat8Tensor(<<e5m2_dtype, 1>>, s, "float32", c, r)
    \/ \E x \in F32Tensors, s \in ScaleTensors : CastToFloat8(x, s, e4m3_dtype, INPUT)
    \/ \E t \in tensors, s \in ScaleTensors : Unflatten(t, s)
    \/ \E t \in tensors : Drop(t)

\* Float8Tensor values built directly, by the cast and by unflatten
SpecTensor == InitIdle /\ [][NextTensor]_vars

NextDispatch == \E f \in AtenOps, types \in SUBSET TensorTypes : Dispatch(f, types)

\* Float8Tensor.__torch_dispatch__ on every operator and set of operand types
SpecDispatch == InitIdle /\ [][NextDispatch]_vars

-----------------------------------------------------------------------------
(* The claims *)

\* the last call was Float8Linear.forward with gradient tracking active
GradForward == last.op = "forward" /\ last.grad_enabled

\* C1 as stated: on a layer with delayed scaling on some role, a forward with
\* gradient tracking raises exactly when the latest forward-or-sync call before it
\* was a forward: it raises right after a forward with no sync in between, and
\* succeeds as the first call or after a sync.
C1_Original ==
    (has_any_delayed_scaling /\ GradForward) => (last.raised <=> last.prev = "forward")

\* C1 amended: the same, for a layer with enable_pre_and_post_forward set.
C1_ForwardNeedsSync ==
    (has_any_delayed_scaling /\ enable_pre_and_post_forward /\ GradForward)
        => (last.raised <=> last.prev = "forward")

C1_Witness ==
    /\ has_any_delayed_scaling /\ enable_pre_and_post_forward /\ GradForward
    /\ last.raised /\ last.prev = "forward" /\ nforward = 1

\* this step is a call of Float8Linear.forward
ForwardStep == ncalls' = ncalls + 1 /\ last'.op = "forward"

\* C2: on a layer with delayed scaling, forward raises the not-synced error exactly
\* when, at the call, is_amax_initialized is true, amax_and_scale_synced is false
\* and gradient tracking is enabled; a forward that raises leaves the flags and
\* every amax, history and scale buffer as they were.
C2_PreForwardCheck ==
    [][(has_any_delayed_scaling /\ ForwardStep) =>
          /\ last'.raised <=> (is_amax_initialized /\ ~amax_and_scale_synced
                                 /\ last'.grad_enabled)
          /\ last'.raised => UNCHANGED <<buffers, is_amax_initialized,
                                         amax_and_scale_synced, last_seen_input_dtype>>
      ]_vars

C2_Witness ==
    /\ has_any_delayed_scaling /\ last.op = "forward" /\ last.raised
    /\ is_amax_initialized /\ ~amax_and_scale_synced
    /\ \E r \in GemmInputRole : buffers[r].fp8_amax # <<default_amax(r)>>

C4_InitializedNoop ==
    st_call.streak >= 1 => (st = st_call.before /\ ~st_call.ran)

C4_Witness ==
    /\ st_call.streak >= 2
    /\ st = st_call.before
    /\ tensor_to_amax(st_call.x, st_call.reduce_amax) # st.fp8_amax[1]
    /\ tensor_to_amax(st_call.x, st_call.reduce_amax) # st.fp8_amax_history[1]

MMCalled == mm_call.op = "choose_scaled_mm_config"

\* C5: with the same LinearMMConfig on both operands, choose_scaled_mm_config
\* returns output for (INPUT, WEIGHT), grad_input for (GRAD_OUTPUT, WEIGHT),
\* grad_weight for (GRAD_OUTPUT, INPUT), and raises for the six other pairs.
C5_RolePairing ==
    (MMCalled /\ mm_call.a = mm_call.b) =>
        LET pair == <<mm_call.a_role, mm_call.b_role>>
        IN  /\ pair = <<INPUT, WEIGHT>> => mm_call.result = mm_call.a.output
            /\ pair = <<GRAD_OUTPUT, WEIGHT>> => mm_call.result = mm_call.a.grad_input
            /\ pair = <<GRAD_OUTPUT, INPUT>> => mm_call.result = mm_call.a.grad_weight
            /\ pair \notin {<<INPUT, WEIGHT>>, <<GRAD_OUTPUT, WEIGHT>>,
                             <<GRAD_OUTPUT, INPUT>>} => IsError(mm_call.result)

C5_Witness ==
    /\ MMCalled /\ mm_call.a = mm_call.b
    /\ mm_call.a_role = GRAD_OUTPUT /\ mm_call.b_role = INPUT
    /\ mm_call.result = mm_call.a.grad_weight
    /\ mm_call.a.grad_weight # mm_call.a.output
    /\ mm_call.a.grad_weight # mm_call.a.grad_input

\* the entry of a LinearMMConfig that applies to a pair of roles
Applies(cfg, a_role, b_role) ==
    IF b_role = INPUT THEN cfg.grad_weight
    ELSE IF a_role = GRAD_OUTPUT THEN cfg.grad_input
    ELSE cfg.output

ValidPair ==
    <<mm_call.a_role, mm_call.b_role>> \in
        {<<INPUT, WEIGHT>>, <<GRAD_OUTPUT, WEIGHT>>, <<GRAD_OUTPUT, INPUT>>}

\* C6: for a valid pair, choose_scaled_mm_config raises when the operands disagree
\* on the entry that applies to the pair, and otherwise returns the entry they
\* share, whatever the two other entries are.
C6_ConfigMismatch ==
    (MMCalled /\ ValidPair) =>
        LET ea == Applies(mm_call.a, mm_call.a_role, mm_call.b_role)
            eb == Applies(mm_call.b, mm_call.a_role, mm_call.b_role)
        IN  IF ea # eb
            THEN IsError(mm_call.result)
            ELSE mm_call.result = ea

C6_Witness ==
    /\ MMCalled /\ ValidPair
    /\ Applies(mm_call.a, mm_call.a_role, mm_call.b_role)
          # Applies(mm_call.b, mm_call.a_role, mm_call.b_role)
    /\ IsError(mm_call.result)

\* C7: building a Float8Tensor from a scale that does not have exactly one element
\* fails, and every Float8Tensor that exists has a scale of exactly one element.
C7_ScaleHasOneElement ==
    /\ \A t \in tensors : Len(t._scale) = 1
    /\ (tensor_call.op \in {"new", "cast", "unflatten"} /\ tensor_call.numel # 1)
          => IsError(tensor_call.result)

C7_Witness ==
    /\ tensor_call.op = "unflatten"
    /\ tensor_call.numel = MaxNumel
    /\ IsError(tensor_call.result)
    /\ Cardinality(tensors) = MaxTensors

Dispatched == dispatch_call.op = "dispatch"

C9_Original ==
    \A r \in GemmInputRole : (r \in DOMAIN buffers) <=> (scaling_type[r] = DELAYED)

\* C9 amended: a role has buffers exactly when some role of the layer is
\* configured DELAYED; the three roles are allocated together.
C9_BuffersIffAnyDelayed ==
    \A r \in GemmInputRole :
        (r \in DOMAIN buffers) <=> (\E q \in GemmInputRole : scaling_type[q] = DELAYED)

C9_Witness ==
    /\ scaling_type[WEIGHT] = DYNAMIC /\ scaling_type[INPUT] = DELAYED
    /\ WEIGHT \in DOMAIN buffers
    /\ ncalls = 0

\* this step is a backward through NoopFwToFloat8E5M2Bw of a forward that ran
\* with is_amax_initialized set
InitializedBackwardStep ==
    /\ ncalls' = ncalls + 1
    /\ last'.op = "backward"
    /\ scaling_type[GRAD_OUTPUT] = DELAYED
    /\ last'.ctx.is_amax_initialized

\* C10: such a backward casts the gradient with the scale stored before it began,
\* writes the gradient's amax to the current amax, and leaves the amax history and
\* the scale as they were.
C10_GradOutputScaleLag ==
    [][InitializedBackwardStep =>
          LET b == buffers[GRAD_OUTPUT]
              go == last'.arg
          IN  /\ last'.res._scale = b.fp8_scale
              /\ last'.res._data = <<e5m2_dtype, to_fp8_saturated(go, b.fp8_scale[1], e5m2_dtype)>>
              /\ buffers'[GRAD_OUTPUT].fp8_amax = <<go.local>>
              /\ buffers'[GRAD_OUTPUT].fp8_amax_history = b.fp8_amax_history
              /\ buffers'[GRAD_OUTPUT].fp8_scale = b.fp8_scale
      ]_vars

C10_Witness ==
    /\ last.op = "backward" /\ scaling_type[GRAD_OUTPUT] = DELAYED
    /\ last.ctx.is_amax_initialized
    /\ buffers[GRAD_OUTPUT].fp8_amax = <<last.arg.local>>
    /\ last.res._scale = buffers[GRAD_OUTPUT].fp8_scale
    /\ buffers[GRAD_OUTPUT].fp8_scale[1] # amax_to_scale(last.arg.local, e5m2_dtype)
    /\ buffers[GRAD_OUTPUT].fp8_amax_history[1] # last.arg.local

\* this step is a call of Float8Linear.forward that returns
ReturnedForwardStep == ForwardStep /\ ~last'.raised

\* the roles whose delayed state a forward of this layer casts with
ForwardDelayedRoles ==
    {r \in {INPUT, WEIGHT} :
        scaling_type[r] = DELAYED /\ (r = WEIGHT => ~weight_is_float8)}

\* the tensor a forward call cast for a role, and the float8 tensor it made
ForwardTensor(call, r) == IF r = INPUT THEN call.x ELSE call.w
ForwardFloat8(call, r) == IF r = INPUT THEN call.x_fp8 ELSE call.w_fp8

\* C11 as stated: on every forward that returns, for each role cast with delayed
\* state, current amax holds the amax of the new tensor, the newest history entry is
\* that amax, and the scale is the one derived from the history after the forward.
C11_Original ==
    [][ReturnedForwardStep =>
          \A r \in ForwardDelayedRoles :
              LET t == ForwardTensor(last', r)
                  b == buffers'[r]
              IN  /\ b.fp8_amax[1] \in {t.local, t.world}
                  /\ b.fp8_amax_history[1] \in {t.local, t.world}
                  /\ b.fp8_scale = <<amax_history_to_scale(b.fp8_amax_history, e4m3_dtype)>>
      ]_vars

\* C11 amended: on every forward that returns, for each role cast with delayed
\* state, current amax holds the amax of the new tensor and the tensor is cast with
\* the stored scale; when is_amax_initialized was set at the call the forward leaves
\* the amax history and the scale as they were (it is the sync that advances the
\* history and recomputes the scale), and when it was not set the forward runs the
\* initialization: history[0] is overwritten and the scale derived from the result.
\* The state of every other role is left as it was.
C11_ForwardRecordsAmax ==
    [][ReturnedForwardStep =>
          /\ \A r \in ForwardDelayedRoles :
                LET t == ForwardTensor(last', r)
                    b == buffers[r]
                    after == buffers'[r]
                    history == [b.fp8_amax_history EXCEPT ![1] = tensor_to_amax(t, r = INPUT)]
                IN  /\ after.fp8_amax = <<t.local>>
                    /\ ForwardFloat8(last', r)._scale = after.fp8_scale
                    /\ IF is_amax_initialized
                       THEN /\ after.fp8_amax_history = b.fp8_amax_history
                            /\ after.fp8_scale = b.fp8_scale
                            /\ r \notin last'.ran
                       ELSE /\ after.fp8_amax_history = history
                            /\ after.fp8_scale = <<amax_history_to_scale(history, e4m3_dtype)>>
                            /\ r \in last'.ran
          /\ \A r \in DOMAIN buffers \ ForwardDelayedRoles : buffers'[r] = buffers[r]
      ]_vars

\* a forward on an initialized layer after a sync: the new amax is recorded, the
\* history and the scale do not follow it
C11_Witness ==
    /\ last.op = "forward" /\ ~last.raised /\ last.prev = "sync"
    /\ is_amax_initialized /\ last.ran = {}
    /\ scaling_type[INPUT] = DELAYED
    /\ buffers[INPUT].fp8_amax = <<last.x.local>>
    /\ buffers[INPUT].fp8_amax_history[1] # last.x.local
    /\ buffers[INPUT].fp8_scale # <<amax_to_scale(last.x.local, e4m3_dtype)>>
    /\ last.x_fp8._scale = buffers[INPUT].fp8_scale

\* this step is a backward through NoopFwToFloat8E5M2Bw
DelayedBackwardStep ==
    /\ ncalls' = ncalls + 1
    /\ last'.op = "backward"
    /\ scaling_type[GRAD_OUTPUT] = DELAYED

\* what the initialization writes for role r and tensor t: history[0], the other
\* entries as they were, and the scale derived from the result
InitializedFrom(r, t) ==
    LET amax == tensor_to_amax(t, r # WEIGHT)
        history == [buffers[r].fp8_amax_history EXCEPT ![1] = amax]
    IN  /\ buffers'[r].fp8_amax_history = history
        /\ buffers'[r].fp8_scale = <<amax_history_to_scale(history, role_dtype(r))>>

\* C12 as stated: a cast that runs the initialization on tensor x leaves current
\* amax at an amax of x, history[0] at amax(x) with the other entries unchanged and
\* the scale derived from that history, and the state is then marked initialized:
\* no later cast that uses a state already initialized initializes it again.
C12_Original ==
    [][/\ ReturnedForwardStep =>
             \A r \in last'.ran :
                 /\ buffers'[r].fp8_amax[1] \in {ForwardTensor(last', r).local,
                                                 ForwardTensor(last', r).world}
                 /\ InitializedFrom(r, ForwardTensor(last', r))
                 /\ is_amax_initialized'
       /\ (DelayedBackwardStep /\ GRAD_OUTPUT \in last'.ran) =>
             /\ buffers'[GRAD_OUTPUT].fp8_amax[1] \in {last'.arg.local, last'.arg.world}
             /\ InitializedFrom(GRAD_OUTPUT, last'.arg)
       /\ \A r \in GemmInputRole :
             (init_runs[r] >= 1 /\ casts'[r] = casts[r] + 1) => init_runs'[r] = init_runs[r]
      ]_vars

\* C12 amended: a cast that runs the initialization on tensor x leaves current amax
\* at the amax of x, history[0] at amax(x) (reduced over the workers for the input
\* and the grad-output) with the other entries unchanged and the scale derived from
\* that history.  The initialization marks nothing: a forward runs it for every
\* delayed role it casts exactly when is_amax_initialized is false at the call, and
\* is_amax_initialized is true after that forward exactly when
\* enable_pre_and_post_forward is set; a backward runs it exactly when the forward
\* that recorded its node was called with is_amax_initialized false, and changes
\* neither flag.
C12_InitTransition ==
    [][/\ ReturnedForwardStep =>
             /\ last'.ran = IF is_amax_initialized THEN {} ELSE ForwardDelayedRoles
             /\ \A r \in last'.ran :
                   /\ buffers'[r].fp8_amax = <<ForwardTensor(last', r).local>>
                   /\ InitializedFrom(r, ForwardTensor(last', r))
                   /\ is_amax_initialized' = enable_pre_and_post_forward
       /\ DelayedBackwardStep =>
             /\ GRAD_OUTPUT \in last'.ran <=> ~last'.ctx.is_amax_initialized
             /\ GRAD_OUTPUT \in last'.ran =>
                   /\ buffers'[GRAD_OUTPUT].fp8_amax = <<last'.arg.local>>
                   /\ InitializedFrom(GRAD_OUTPUT, last'.arg)
             /\ UNCHANGED <<is_amax_initialized, amax_and_scale_synced>>
      ]_vars

\* the initialization ran on an input whose amax differs between the workers, over
\* a history that already held an observation
C12_Witness ==
    /\ last.op = "forward" /\ INPUT \in last.ran
    /\ last.x.local < last.x.world
    /\ buffers[INPUT].fp8_amax = <<last.x.local>>
    /\ buffers[INPUT].fp8_amax_history[1] = last.x.world
    /\ buffers[INPUT].fp8_amax_history[2] \notin {0, last.x.world}
    /\ buffers[INPUT].fp8_scale = <<amax_to_scale(last.x.world, e4m3_dtype)>>

\* C13 as stated: after every forward that returns on a layer with delayed scaling
\* on some role, is_amax_initialized is true and amax_and_scale_synced is false.
C13_Original ==
    [][(has_any_delayed_scaling /\ ReturnedForwardStep) =>
          (is_amax_initialized' /\ ~amax_and_scale_synced')
      ]_vars

\* C13 amended: the same for a layer with enable_pre_and_post_forward set, whatever
\* the two flags were before the call; with it unset a forward leaves both flags as
\* they were.
C13_PostForwardFlags ==
    [][(has_any_delayed_scaling /\ ReturnedForwardStep) =>
          IF enable_pre_and_post_forward
          THEN is_amax_initialized' /\ ~amax_and_scale_synced'
          ELSE UNCHANGED <<is_amax_initialized, amax_and_scale_synced>>
      ]_vars

\* a second forward, made after a sync had set amax_and_scale_synced
C13_Witness ==
    /\ has_any_delayed_scaling /\ enable_pre_and_post_forward /\ enable_amax_init
    /\ last.op = "forward" /\ ~last.raised /\ last.prev = "sync"
    /\ nforward = 2
    /\ is_amax_initialized /\ ~amax_and_scale_synced

AllDynamic == \A r \in GemmInputRole : scaling_type[r] = DYNAMIC

\* C14: a layer whose three roles are all dynamic has no amax, history or scale
\* buffer; its forward never runs the pre-forward check (it never raises and never
\* records the input dtype), the two flags stay as constructed, no delayed state is
\* cast with or initialized, and each cast takes its scale from the live tensor
\* alone, so forwards with gradient tracking succeed one after another without
\* a sync.
C14_DynamicStateless ==
    AllDynamic =>
        /\ DOMAIN buffers = {}
        /\ is_amax_initialized = ~enable_amax_init
        /\ amax_and_scale_synced = ~enable_amax_init
        /\ last_seen_input_dtype = None
        /\ \A r \in GemmInputRole : casts[r] = 0 /\ init_runs[r] = 0
        /\ last.op = "forward" =>
              /\ ~last.raised
              /\ last.x_fp8._scale \in {<<amax_to_scale(last.x.local, e4m3_dtype)>>,
                                         <<amax_to_scale(last.x.world, e4m3_dtype)>>}
              /\ last.w_fp8._scale = <<amax_to_scale(last.w.local, e4m3_dtype)>>

\* three forwards in a row with gradient tracking, no sync between them
C14_Witness ==
    /\ AllDynamic /\ enable_amax_init /\ enable_pre_and_post_forward
    /\ GradForward /\ ~last.raised /\ last.prev = "forward"
    /\ nforward = 3 /\ Cardinality(graph) = 3
    /\ DOMAIN buffers = {}

\* C15: in the delayed cast paths an amax written to the state of the input or of
\* the grad-output is the amax reduced over the workers, and one written to the
\* state of the weight is the amax of this worker alone: the initialization writes
\* such an amax to history[0], and a backward through NoopFwToFloat8E5M2Bw records
\* such an amax of the gradient in current amax.
C15_ReduceAmaxByRole ==
    [][/\ ReturnedForwardStep =>
             /\ INPUT \in last'.ran =>
                   buffers'[INPUT].fp8_amax_history[1] = last'.x.world
             /\ WEIGHT \in last'.ran =>
                   buffers'[WEIGHT].fp8_amax_history[1] = last'.w.local
       /\ DelayedBackwardStep =>
             /\ GRAD_OUTPUT \in last'.ran =>
                   buffers'[GRAD_OUTPUT].fp8_amax_history[1] = last'.arg.world
             /\ buffers'[GRAD_OUTPUT].fp8_amax = <<last'.arg.world>>
      ]_vars

\* the buffers of role r are as the initialization on tensor t, followed by the
\* cast's record of the amax of t, leaves them
FreshlyInitialized(r, t) ==
    /\ buffers[r].fp8_amax = <<t.local>>
    /\ buffers[r].fp8_amax_history[1] = tensor_to_amax(t, r # WEIGHT)
    /\ buffers[r].fp8_scale =
           <<amax_history_to_scale(buffers[r].fp8_amax_history, role_dtype(r))>>

\* C16: on a layer with delayed scaling built with enable_pre_and_post_forward
\* false and enable_amax_init true, is_amax_initialized stays false, no forward
\* raises or records the input dtype, and every forward and every backward runs the
\* initialization for each delayed state it casts with, overwriting current amax,
\* history[0] and the scale: each state has been initialized as many times as it
\* has been used.
C16_InitEveryPass ==
    (has_any_delayed_scaling /\ ~enable_pre_and_post_forward /\ enable_amax_init) =>
        /\ ~is_amax_initialized
        /\ last_seen_input_dtype = None
        /\ \A r \in GemmInputRole : init_runs[r] = casts[r]
        /\ last.op = "forward" =>
              /\ ~last.raised
              /\ last.ran = ForwardDelayedRoles
              /\ \A r \in ForwardDelayedRoles : FreshlyInitialized(r, ForwardTensor(last, r))
        /\ (last.op = "backward" /\ scaling_type[GRAD_OUTPUT] = DELAYED) =>
              /\ last.ran = {GRAD_OUTPUT}
              /\ FreshlyInitialized(GRAD_OUTPUT, last.arg)

\* two forwards, then a backward: every one of them initialized again
C16_Witness ==
    /\ ~enable_pre_and_post_forward /\ enable_amax_init /\ ~weight_is_float8
    /\ \A r \in GemmInputRole : scaling_type[r] = DELAYED
    /\ init_runs[INPUT] = 2 /\ init_runs[WEIGHT] = 2 /\ init_runs[GRAD_OUTPUT] = 1
    /\ last.op = "backward" /\ last.ran = {GRAD_OUTPUT}
    /\ ~is_amax_initialized

====
